---- MODULE Spec2Model ----
(***************************************************************************)
(* Job registry (job_manager.py), batch pipeline and track fetcher         *)
(* (download_service.py) of the SpotiDownloader server, as one state       *)
(* machine.  Every asyncio task step (the code between two awaits) is one  *)
(* action; the worker threads of run_in_executor take steps of their own.  *)
(***************************************************************************)
EXTENDS Integers, Sequences, FiniteSets, TLC

\* ------------------------------------------------------------------ bounds
MaxJobs == 2
MaxTracks == 2
MaxTotal == 50
SharedTracks == 1
MaxRecorded == 1

\* ------------------------------------------------- IEEE-754 binary64 helpers
\* job.progress = int(((completed + failed + skipped) / job.total_tracks) * 100)
\* is evaluated by CPython on binary64 floats: a correctly rounded division,
\* a correctly rounded multiplication, then truncation toward zero.  A
\* 53-bit mantissa does not fit the model checker's integers, so it is kept
\* as six limbs of ten bits, least significant first: <<L0, ..., L5>> stands
\* for L0 + L1*2^10 + ... + L5*2^50, and a normalised mantissa has
\* 4 <= L5 <= 7 (bit 52 set).
Limb == 1024

RECURSIVE Pow2(_)
Pow2(k) == IF k = 0 THEN 1 ELSE 2 * Pow2(k - 1)

\* The least s with n * 2^s >= d, for 0 < n < d.
RECURSIVE NormShift(_, _, _)
NormShift(n, d, s) == IF n >= d THEN s ELSE NormShift(2 * n, d, s + 1)

\* Carry propagation; the top limb absorbs what is left.
Carry(x) ==
  LET y0 == x[1]
      y1 == x[2] + (y0 \div Limb)
      y2 == x[3] + (y1 \div Limb)
      y3 == x[4] + (y2 \div Limb)
      y4 == x[5] + (y3 \div Limb)
      y5 == x[6] + (y4 \div Limb)
  IN <<y0 % Limb, y1 % Limb, y2 % Limb, y3 % Limb, y4 % Limb, y5>>

\* The binary64 quotient n / d for 0 < n < d < 2^21, as [m, s]: the value
\* is m * 2^(-52 - s).  Long division yields the 53 leading bits of the
\* quotient, the remainder decides the rounding (half to even).
FloatDiv(n, d) ==
  LET s == NormShift(n, d, 0)
      r0 == n * Pow2(s) - d
      q5 == (r0 * 4) \div d
      r5 == (r0 * 4) % d
      q4 == (r5 * Limb) \div d
      r4 == (r5 * Limb) % d
      q3 == (r4 * Limb) \div d
      r3 == (r4 * Limb) % d
      q2 == (r3 * Limb) \div d
      r2 == (r3 * Limb) % d
      q1 == (r2 * Limb) \div d
      r1 == (r2 * Limb) % d
      q0 == (r1 * Limb) \div d
      rem == (r1 * Limb) % d
      up == 2 * rem > d \/ (2 * rem = d /\ q0 % 2 = 1)
  IN [m |-> Carry(<<q0 + (IF up THEN 1 ELSE 0), q1, q2, q3, q4, 4 + q5>>),
      s |-> s]

\* The binary64 product x * k for a small positive integer k (k <= 127):
\* the exact product has 6 or 7 bits more than a mantissa holds, all of
\* them in the lowest limb, and is rounded half to even.  The result keeps
\* the exponent of x: its low bits are zero.
FloatMulInt(x, k) ==
  LET p == Carry(<<x.m[1] * k, x.m[2] * k, x.m[3] * k,
                   x.m[4] * k, x.m[5] * k, x.m[6] * k>>)
      top == IF p[6] >= 512 THEN 60 ELSE IF p[6] >= 256 THEN 59
             ELSE IF p[6] >= 128 THEN 58 ELSE IF p[6] >= 64 THEN 57
             ELSE IF p[6] >= 32 THEN 56 ELSE IF p[6] >= 16 THEN 55
             ELSE IF p[6] >= 8 THEN 54 ELSE 53
      cut == Pow2(top - 53)
      low == p[1] % cut
      kept == p[1] - low
      up == 2 * low > cut \/ (2 * low = cut /\ (kept \div cut) % 2 = 1)
  IN [m |-> Carry(<<kept + (IF up THEN cut ELSE 0), p[2], p[3], p[4], p[5], p[6]>>),
      s |-> x.s]

\* int(x) for a binary64 x >= 0 held as above: the bits from 2^(52 + s) up,
\* all of which lie in the top limb since s >= 0.
FloatTrunc(x) == x.m[6] \div Pow2(2 + x.s)

\* int((n / d) * 100) as CPython evaluates it, for 0 <= n <= d and d >= 1.
FloatProgress(n, d) ==
  IF n = 0 THEN 0
  ELSE IF n = d THEN 100
  ELSE FloatTrunc(FloatMulInt(FloatDiv(n, d), 100))

\* ------------------------------------------------------------- constants
MinFileSize == 100000
FlacMinSize == 500000

JobIds == 1..MaxJobs
\* Track k is the k-th entry of the metadata resolver's list; a job of n
\* tracks downloads tracks 1..n.  Two jobs therefore share their first tracks
\* and, with one output directory, their file names.
Tracks == 1..MaxTracks
Exts == {".mp3", ".flac"}

\* JobStatus
PENDING == "pending"
RUNNING == "running"
COMPLETED == "completed"
FAILED == "failed"
SKIPPED == "skipped"

CancelMessage == "Job cancelled by user"
SkipMessage == "File already exists - skipped"

\* A path of the output directory: the formatted file name of a track with an
\* extension, or that name followed by ".tmp".
Paths == [track : Tracks, ext : Exts, tmp : BOOLEAN]
NoPath == [track |-> 0, ext |-> "", tmp |-> FALSE]

\* What a file holds: the kind of data (what mutagen's MP3 parser makes of
\* it), the bytes on disk, whether ID3 tags were embedded, and whether the
\* bytes are a whole payload (FALSE while a writer is part-way through it).
NoFile == [kind |-> "none", size |-> 0, tagged |-> FALSE, whole |-> FALSE]
\* The bodies the provider's file host may answer with: a playable MP3, and
\* data mutagen's MP3 parser rejects (a FLAC stream, an error page).
Payloads ==
  { [kind |-> "mp3", size |-> 600000],
    [kind |-> "raw", size |-> 600000] }
NoPayload == [kind |-> "none", size |-> 0]

VARIABLES
  jobs,        \* JobManager.jobs: job id -> JobStatusResponse
  job_tasks,   \* JobManager.job_tasks: the job ids holding a task handle
  task,        \* per job id: the asyncio task running download_tracks_batch
  worker,      \* per job id: the executor thread serving the task's await
  fs,          \* the output directory: path -> file content
  outdir,      \* whether the output directory exists
  all_jobs,    \* the dict a caller got from get_all_jobs, and what it shows
  call         \* the last direct call of a helper: its arguments and result

vars == <<jobs, job_tasks, task, worker, fs, outdir, all_jobs, call>>

\* No helper has been called directly.
NoCall == [fn |-> "none"]

\* ------------------------------------------------------------ job records
\* JobManager.create_job's JobStatusResponse.
NewJob(total_tracks) ==
  [ status |-> PENDING, progress |-> 0, current_track |-> <<>>,
    total_tracks |-> total_tracks, completed_tracks |-> 0,
    failed_tracks |-> 0, skipped_tracks |-> 0, error_message |-> "",
    downloaded_files |-> <<>> ]

\* update_job_status storing the message it is given, empty or not.
update_job_status_AlwaysSetsMessage(J, job_id, status, error_message) ==
  IF job_id \in DOMAIN J
  THEN [J EXCEPT ![job_id].status = status,
                 ![job_id].error_message = error_message]
  ELSE J

\* JobManager.update_job_status on the job map J.
update_job_status(J, job_id, status, error_message) ==
  IF job_id \in DOMAIN J
  THEN [J EXCEPT ![job_id].status = status,
                 ![job_id].error_message =
                     IF error_message # "" THEN error_message ELSE @]
  ELSE J

\* update_job_progress reporting the share of the work still to do.
update_job_progress_Remaining(J, job_id, current_track, completed, failed, skipped) ==
  IF job_id \in DOMAIN J
  THEN [J EXCEPT ![job_id].current_track = current_track,
                 ![job_id].completed_tracks = completed,
                 ![job_id].failed_tracks = failed,
                 ![job_id].skipped_tracks = skipped,
                 ![job_id].progress =
                     FloatProgress(J[job_id].total_tracks
                                     - (completed + failed + skipped),
                                   J[job_id].total_tracks)]
  ELSE J

\* JobManager.update_job_progress on the job map J.
update_job_progress(J, job_id, current_track, completed, failed, skipped) ==
  IF job_id \in DOMAIN J
  THEN [J EXCEPT ![job_id].current_track = current_track,
                 ![job_id].completed_tracks = completed,
                 ![job_id].failed_tracks = failed,
                 ![job_id].skipped_tracks = skipped,
                 ![job_id].progress =
                     FloatProgress(completed + failed + skipped,
                                   J[job_id].total_tracks)]
  ELSE J

\* JobManager.get_all_jobs on the job map J: self.jobs.copy() is a new dict
\* with the keys of J (ids) whose values are the job objects of J themselves;
\* seen is what the objects held when the dict was returned, now is what the
\* caller reads through it.
get_all_jobs(J) == [ids |-> DOMAIN J, seen |-> J, now |-> J]

\* No dict has been handed out.
NoSnapshot ==
  [ids |-> {}, seen |-> [k \in {} |-> 0], now |-> [k \in {} |-> 0]]

\* The job objects are shared with the registry: what a step writes to a job
\* record shows through the dict handed out; an object evicted from the
\* registry keeps its last values.
Aliased ==
  all_jobs' = [all_jobs EXCEPT !.now =
                 [k \in all_jobs.ids |->
                    IF k \in DOMAIN jobs' THEN jobs'[k] ELSE all_jobs.now[k]]]

\* add_downloaded_file putting the path at the head of the list.
add_downloaded_file_Prepends(J, job_id, file_path) ==
  IF job_id \in DOMAIN J
  THEN [J EXCEPT ![job_id].downloaded_files = <<file_path>> \o @]
  ELSE J

\* add_downloaded_file listing the path twice.
add_downloaded_file_Twice(J, job_id, file_path) ==
  IF job_id \in DOMAIN J
  THEN [J EXCEPT ![job_id].downloaded_files = Append(Append(@, file_path), file_path)]
  ELSE J

\* add_downloaded_file on records that share one list object, as they would
\* if the default of downloaded_files were not copied for each instance.
add_downloaded_file_SharedDefault(J, job_id, file_path) ==
  IF job_id \in DOMAIN J
  THEN [k \in DOMAIN J |-> [J[k] EXCEPT !.downloaded_files = Append(@, file_path)]]
  ELSE J

\* JobManager.add_downloaded_file on the job map J.
add_downloaded_file(J, job_id, file_path) ==
  IF job_id \in DOMAIN J
  THEN [J EXCEPT ![job_id].downloaded_files = Append(@, file_path)]
  ELSE J

\* ------------------------------------------------------------ file system
\* DownloadService.get_formatted_filename joined to the output directory.
FilePath(track, ext) == [track |-> track, ext |-> ext, tmp |-> FALSE]
\* temp_filepath = filepath + ".tmp"
TempPath(p) == [p EXCEPT !.tmp = TRUE]

Exists(F, p) == F[p] # NoFile

\* mutagen's MP3(filepath): "pos" a positive length, "zero" a length of 0,
\* "raise" an exception.
ParseMP3(c) ==
  IF c.kind = "mp3" THEN "pos"
  ELSE IF c.kind = "mp3zero" THEN "zero"
  ELSE "raise"

\* filepath.lower().endswith('.flac')
EndsWithFlac(p) == p.ext = ".flac" /\ ~p.tmp

\* DownloadService.is_valid_existing_file
is_valid_existing_file(F, p) ==
  IF ~Exists(F, p) THEN FALSE
  ELSE IF F[p].size < MinFileSize THEN FALSE
  ELSE IF ParseMP3(F[p]) = "pos" THEN TRUE
  ELSE IF ParseMP3(F[p]) = "raise"
       THEN EndsWithFlac(p) /\ F[p].size > FlacMinSize
       ELSE FALSE

\* os.remove(p), and what it does to a thread that holds p open: the thread
\* keeps writing to a file that has no name any more.
Unlink(F, p) == [F EXCEPT ![p] = NoFile]
Detach(W, p) ==
  [k \in JobIds |-> IF W[k].at = p THEN [W[k] EXCEPT !.at = NoPath] ELSE W[k]]

\* os.rename(src, dst): dst's old content loses its name, and a thread that
\* holds src open goes on writing under the new name.
Rename(F, src, dst) == [F EXCEPT ![dst] = F[src], ![src] = NoFile]
Follow(W, src, dst) ==
  [k \in JobIds |->
     IF W[k].at = src THEN [W[k] EXCEPT !.at = dst]
     ELSE IF W[k].at = dst THEN [W[k] EXCEPT !.at = NoPath]
     ELSE W[k]]

DirEmpty(F) == \A p \in Paths : ~Exists(F, p)

\* ------------------------------------------------------- tasks and threads
\* The coroutine download_tracks_batch of one job: its asyncio state (st,
\* cancel_req), the await it is suspended at (pc) and its local variables.
NoTask ==
  [ st |-> "unborn", cancel_req |-> FALSE, pc |-> "none", n |-> 0,
    prefer_flac |-> FALSE, i |-> 0, completed |-> 0, failed |-> 0,
    skipped |-> 0, ext |-> "" ]

\* asyncio.Task.done()
TaskDone(t) == t.st \in {"done", "cancelled", "raised"}

\* A coroutine that has ended holds no locals any more.
Ended(t, st) == [NoTask EXCEPT !.st = st]

\* The thread of loop.run_in_executor: the call it runs (op), how far it is
\* (stage), the path it was given (target) and the path its open file has
\* now (at).
IdleWorker ==
  [ op |-> "idle", stage |-> "none", target |-> NoPath, at |-> NoPath,
    payload |-> NoPayload ]

\* current_track_display of a track, and the label of the final report.
Label(track) == <<"track", track>>
CompletedLabel == <<"Completed">>

\* The counters when a track's outcome also steps the loop index, so that the
\* track after it is passed over.
Counted_StepsIndex(t, outcome) ==
  [t EXCEPT !.completed = IF outcome = "success" THEN @ + 1 ELSE @,
            !.skipped = IF outcome = "skipped" THEN @ + 1 ELSE @,
            !.failed = IF outcome = "failed" THEN @ + 1 ELSE @,
            !.i = IF @ < t.n THEN @ + 1 ELSE @,
            !.pc = "sleep", !.ext = ""]

\* The counters when a failed track ends the batch (a break out of the loop).
Counted_FailureEndsBatch(t, outcome) ==
  [t EXCEPT !.completed = IF outcome = "success" THEN @ + 1 ELSE @,
            !.skipped = IF outcome = "skipped" THEN @ + 1 ELSE @,
            !.failed = IF outcome = "failed" THEN @ + 1 ELSE @,
            !.i = IF outcome = "failed" THEN t.n ELSE @,
            !.pc = "sleep", !.ext = ""]

\* The counters when a failed track is left uncounted.
Counted_DropFailed(t, outcome) ==
  [t EXCEPT !.completed = IF outcome = "success" THEN @ + 1 ELSE @,
            !.skipped = IF outcome = "skipped" THEN @ + 1 ELSE @,
            !.pc = "sleep", !.ext = ""]

\* The counters after a track's outcome, suspended in asyncio.sleep(0.5).
Counted(t, outcome) ==
  [t EXCEPT !.completed = IF outcome = "success" THEN @ + 1 ELSE @,
            !.skipped = IF outcome = "skipped" THEN @ + 1 ELSE @,
            !.failed = IF outcome = "failed" THEN @ + 1 ELSE @,
            !.pc = "sleep", !.ext = ""]

\* A loop iteration that removes the file at the destination before it looks
\* at it, and so fetches every track anew.
BeginTrack_RemovesFirst(J, j, t, F, W, rm_ok) ==
  LET J1 == update_job_progress(J, j, Label(t.i), t.completed, t.failed, t.skipped)
      filepath == FilePath(t.i, ".mp3")
  IN [J |-> J1, t |-> [t EXCEPT !.pc = "link"],
      F |-> Unlink(F, filepath), W |-> Detach(W, filepath)]

\* A loop iteration whose skip branch counts the track as skipped and then
\* goes on to download it as well.
BeginTrack_SkipFallsThrough(J, j, t, F, W, rm_ok) ==
  LET J1 == update_job_progress(J, j, Label(t.i), t.completed, t.failed, t.skipped)
      filepath == FilePath(t.i, ".mp3")
  IN [J |-> J1,
      t |-> [t EXCEPT !.pc = "link",
                      !.skipped = IF Exists(F, filepath) THEN @ + 1 ELSE @],
      F |-> F, W |-> W]

\* A loop iteration that fetches the track without reporting it first.
BeginTrack_FetchesUnreported(J, j, t, F, W, rm_ok) ==
  LET filepath == FilePath(t.i, ".mp3")
      asked == [t EXCEPT !.pc = "link"]
  IN IF is_valid_existing_file(F, filepath)
     THEN [J |-> J, t |-> Counted(t, "skipped"), F |-> F, W |-> W]
     ELSE IF Exists(F, filepath)
     THEN IF rm_ok
          THEN [J |-> J, t |-> asked, F |-> Unlink(F, filepath),
                W |-> Detach(W, filepath)]
          ELSE [J |-> J, t |-> Counted(t, "failed"), F |-> F, W |-> W]
     ELSE [J |-> J, t |-> asked, F |-> F, W |-> W]

\* A loop iteration that leaves a corrupted file where it is and asks for
\* the download link.
BeginTrack_KeepsCorrupted(J, j, t, F, W, rm_ok) ==
  LET J1 == update_job_progress(J, j, Label(t.i), t.completed, t.failed, t.skipped)
      filepath == FilePath(t.i, ".mp3")
  IN IF is_valid_existing_file(F, filepath)
     THEN [J |-> J1, t |-> Counted(t, "skipped"), F |-> F, W |-> W]
     ELSE [J |-> J1, t |-> [t EXCEPT !.pc = "link"], F |-> F, W |-> W]

\* One loop iteration of download_tracks_batch for track t.i, up to its first
\* await: the progress report, then download_track_async down to the request
\* for a download link (or to the sleep, when the track is settled without
\* one).  rm_ok: whether os.remove of a corrupted file succeeds.
BeginTrack(J, j, t, F, W, rm_ok) ==
  LET J1 == update_job_progress(J, j, Label(t.i), t.completed, t.failed, t.skipped)
      filepath == FilePath(t.i, ".mp3")
      asked == [t EXCEPT !.pc = "link"]
  IN IF is_valid_existing_file(F, filepath)
     THEN [J |-> J1, t |-> Counted(t, "skipped"), F |-> F, W |-> W]
     ELSE IF Exists(F, filepath)
     THEN IF rm_ok
          THEN [J |-> J1, t |-> asked, F |-> Unlink(F, filepath),
                W |-> Detach(W, filepath)]
          ELSE [J |-> J1, t |-> Counted(t, "failed"), F |-> F, W |-> W]
     ELSE [J |-> J1, t |-> asked, F |-> F, W |-> W]

\* ----------------------------------------------------------------- actions
\* start_download, from the job's creation to register_task: no await lies
\* between them.  n = len(tracks) >= 1 (an empty list is answered with 400).
StartDownload(n, prefer_flac) ==
  /\ \E id \in JobIds :
       /\ task[id].st = "unborn"
       /\ \A k \in JobIds : k < id => task[k].st # "unborn"
       /\ jobs' = [k \in DOMAIN jobs \cup {id} |->
                     IF k = id THEN NewJob(n) ELSE jobs[k]]
       /\ job_tasks' = job_tasks \cup {id}
       /\ task' = [task EXCEPT ![id] =
                     [NoTask EXCEPT !.st = "pending", !.pc = "start", !.n = n,
                                    !.prefer_flac = prefer_flac]]
  /\ outdir' = TRUE
  /\ UNCHANGED <<worker, fs>>
  /\ Aliased
  /\ UNCHANGED call

\* The task's first step: the directory, status Running, and the first track
\* up to its first await.  mk_ok: whether Path(outpath).mkdir succeeds; when
\* it raises, the task ends with that exception.
TaskStart(j) ==
  /\ task[j].st = "pending"
  /\ ~task[j].cancel_req
  /\ \E mk_ok \in BOOLEAN, rm_ok \in BOOLEAN :
       IF ~mk_ok
       THEN /\ task' = [task EXCEPT ![j] = Ended(@, "raised")]
            /\ UNCHANGED <<jobs, fs, worker, outdir>>
       ELSE LET r == BeginTrack(update_job_status(jobs, j, RUNNING, ""), j,
                                [task[j] EXCEPT !.st = "running", !.i = 1],
                                fs, worker, rm_ok)
            IN /\ jobs' = r.J
               /\ task' = [task EXCEPT ![j] = r.t]
               /\ fs' = r.F
               /\ worker' = r.W
               /\ outdir' = TRUE
  /\ UNCHANGED <<job_tasks>>
  /\ Aliased
  /\ UNCHANGED call

\* A running task may take its next step when no cancellation is pending.
Resumes(j, pc) ==
  /\ task[j].st = "running"
  /\ ~task[j].cancel_req
  /\ task[j].pc = pc

\* The answer to POST /download: anything but a 200 with success and a link
\* (a raised exception included) fails the track.
LinkResponse(j) ==
  /\ Resumes(j, "link")
  /\ \E ok \in BOOLEAN :
       task' = [task EXCEPT ![j] =
                  IF ~ok THEN Counted(@, "failed")
                  ELSE IF @.prefer_flac THEN [@ EXCEPT !.pc = "probe"]
                  ELSE [@ EXCEPT !.pc = "audio", !.ext = ".mp3"]]
  /\ UNCHANGED <<jobs, job_tasks, worker, fs, outdir>>
  /\ Aliased
  /\ UNCHANGED call

\* The answer to POST /isFlacAvailable; an exception or a refusal keeps the
\* primary link.
ProbeResponse(j) ==
  /\ Resumes(j, "probe")
  /\ \E available \in BOOLEAN :
       task' = [task EXCEPT ![j] =
                  IF available
                  THEN [@ EXCEPT !.pc = "flaclink"]
                  ELSE [@ EXCEPT !.pc = "audio", !.ext = ".mp3"]]
  /\ UNCHANGED <<jobs, job_tasks, worker, fs, outdir>>
  /\ Aliased
  /\ UNCHANGED call

\* A lossless POST /download whose refusal fails the track.
FlacLinkResponse_RefusalFailsTrack(j) ==
  /\ Resumes(j, "flaclink")
  /\ \E ok \in BOOLEAN :
       task' = [task EXCEPT ![j] =
                  IF ok THEN [@ EXCEPT !.pc = "audio", !.ext = ".flac"]
                  ELSE Counted(@, "failed")]
  /\ UNCHANGED <<jobs, job_tasks, worker, fs, outdir>>
  /\ Aliased
  /\ UNCHANGED call

\* The answer to the lossless POST /download.
FlacLinkResponse(j) ==
  /\ Resumes(j, "flaclink")
  /\ \E ok \in BOOLEAN :
       task' = [task EXCEPT ![j] =
                  [@ EXCEPT !.pc = "audio",
                            !.ext = IF ok THEN ".flac" ELSE ".mp3"]]
  /\ UNCHANGED <<jobs, job_tasks, worker, fs, outdir>>
  /\ Aliased
  /\ UNCHANGED call

\* The answer to GET download_url: a failure, or a body that is handed to a
\* thread to be written to the temporary path.
AudioResponse(j) ==
  /\ Resumes(j, "audio")
  /\ \/ /\ task' = [task EXCEPT ![j] = Counted(@, "failed")]
        /\ UNCHANGED worker
     \/ \E body \in Payloads :
          /\ task' = [task EXCEPT ![j].pc = "write"]
          /\ worker' = [worker EXCEPT ![j] =
                          [ op |-> "write", stage |-> "queued",
                            target |-> TempPath(FilePath(task[j].i, task[j].ext)),
                            at |-> NoPath, payload |-> body ]]
  /\ UNCHANGED <<jobs, job_tasks, fs, outdir>>
  /\ Aliased
  /\ UNCHANGED call

\* ------------------------------------------------------ executor threads
\* A thread whose task was cancelled runs on; nobody waits for its result.
Orphan(j) == TaskDone(task[j])
Settle(j, w) == IF Orphan(j) THEN IdleWorker ELSE w

\* Another thread is part-way through the file at path p.
Shared(W, j, p) ==
  \E k \in JobIds \ {j} : W[k].at = p /\ W[k].stage \in {"open", "part", "saving"}

\* _write_file: open(filepath, "wb") creates or truncates the file; it raises
\* when the directory is gone.
WriterOpen(j) ==
  /\ worker[j].op = "write"
  /\ worker[j].stage = "queued"
  /\ IF outdir
     THEN /\ fs' = [fs EXCEPT ![worker[j].target] =
                      [ kind |-> worker[j].payload.kind, size |-> 0,
                        tagged |-> FALSE, whole |-> FALSE ]]
          /\ worker' = [worker EXCEPT ![j].stage = "open",
                                      ![j].at = worker[j].target]
     ELSE /\ worker' = [worker EXCEPT ![j] = Settle(j, [@ EXCEPT !.stage = "error"])]
          /\ UNCHANGED fs
  /\ UNCHANGED <<jobs, job_tasks, task, outdir>>
  /\ Aliased
  /\ UNCHANGED call

\* _write_file: file.write(content) has put the first half on disk.
WriterChunk(j) ==
  /\ worker[j].op = "write"
  /\ worker[j].stage = "open"
  /\ worker' = [worker EXCEPT ![j].stage = "part"]
  /\ fs' = IF worker[j].at = NoPath THEN fs
           ELSE [fs EXCEPT ![worker[j].at] =
                   [ kind |-> worker[j].payload.kind,
                     size |-> worker[j].payload.size \div 2,
                     tagged |-> FALSE, whole |-> FALSE ]]
  /\ UNCHANGED <<jobs, job_tasks, task, outdir>>
  /\ Aliased
  /\ UNCHANGED call

\* _write_file: the rest is written and the file closed.
WriterFinish(j) ==
  /\ worker[j].op = "write"
  /\ worker[j].stage \in {"open", "part"}
  /\ worker' = [worker EXCEPT ![j] =
                  Settle(j, [@ EXCEPT !.stage = "done", !.at = NoPath])]
  /\ fs' = IF worker[j].at = NoPath THEN fs
           ELSE [fs EXCEPT ![worker[j].at] =
                   [ kind |-> worker[j].payload.kind,
                     size |-> worker[j].payload.size,
                     tagged |-> FALSE,
                     whole |-> ~Shared(worker, j, worker[j].at) ]]
  /\ UNCHANGED <<jobs, job_tasks, task, outdir>>
  /\ Aliased
  /\ UNCHANGED call

\* _write_file: the write raises (the disk is full, say) and leaves what it
\* had written.
WriterFail(j) ==
  /\ worker[j].op = "write"
  /\ worker[j].stage \in {"open", "part"}
  /\ worker' = [worker EXCEPT ![j] =
                  Settle(j, [@ EXCEPT !.stage = "error", !.at = NoPath])]
  /\ UNCHANGED <<jobs, job_tasks, task, fs, outdir>>
  /\ Aliased
  /\ UNCHANGED call

\* embed_metadata: MP3(filepath, ID3=ID3) and the tags; audio.save() starts
\* to rewrite the file in place.  When the file is gone or does not parse the
\* exception is logged and the call returns.
EmbedStart(j) ==
  /\ worker[j].op = "embed"
  /\ worker[j].stage = "queued"
  /\ LET p == worker[j].target
     IN IF Exists(fs, p) /\ ParseMP3(fs[p]) # "raise"
        THEN /\ fs' = [fs EXCEPT ![p].whole = FALSE, ![p].tagged = TRUE]
             /\ worker' = [worker EXCEPT ![j].stage = "saving", ![j].at = p]
        ELSE /\ worker' = [worker EXCEPT ![j] = Settle(j, [@ EXCEPT !.stage = "done"])]
             /\ UNCHANGED fs
  /\ UNCHANGED <<jobs, job_tasks, task, outdir>>
  /\ Aliased
  /\ UNCHANGED call

\* embed_metadata: audio.save() returns.
EmbedFinish(j) ==
  /\ worker[j].op = "embed"
  /\ worker[j].stage = "saving"
  /\ worker' = [worker EXCEPT ![j] =
                  Settle(j, [@ EXCEPT !.stage = "done", !.at = NoPath])]
  /\ fs' = IF worker[j].at = NoPath THEN fs
           ELSE [fs EXCEPT ![worker[j].at].whole = ~Shared(worker, j, worker[j].at)]
  /\ UNCHANGED <<jobs, job_tasks, task, outdir>>
  /\ Aliased
  /\ UNCHANGED call

\* ------------------------------------------------- the task, after a thread
\* A fetch that promotes whatever the thread wrote, without the validity
\* check.
WriteReturned_PromotesUnchecked(j) ==
  /\ Resumes(j, "write")
  /\ worker[j].stage \in {"done", "error"}
  /\ \E mv_ok \in BOOLEAN, rm_ok \in BOOLEAN :
       LET temp_filepath == worker[j].target
           filepath == FilePath(task[j].i, task[j].ext)
           W0 == [worker EXCEPT ![j] = IdleWorker]
       IN IF worker[j].stage = "done" /\ Exists(fs, temp_filepath) /\ mv_ok
          THEN /\ fs' = Rename(fs, temp_filepath, filepath)
               /\ worker' = Follow(W0, temp_filepath, filepath)
               /\ task' = [task EXCEPT ![j] = Counted(@, "success")]
               /\ jobs' = add_downloaded_file(jobs, j, filepath)
          ELSE /\ fs' = IF rm_ok THEN Unlink(fs, temp_filepath) ELSE fs
               /\ worker' = IF rm_ok THEN Detach(W0, temp_filepath) ELSE W0
               /\ task' = [task EXCEPT ![j] = Counted(@, "failed")]
               /\ UNCHANGED jobs
  /\ UNCHANGED <<job_tasks, outdir>>
  /\ Aliased
  /\ UNCHANGED call

\* download_track_async after the write: the validity check of the temporary
\* file, the rename, and either the embedding (MP3) or the track's outcome.
\* When the write or the rename raised, or the file is judged corrupted, the
\* temporary file is removed and the track fails.  mv_ok: whether os.rename
\* succeeds; rm_ok: whether os.remove of the temporary file succeeds (a
\* failure is swallowed on the way out).
WriteReturned(j) ==
  /\ Resumes(j, "write")
  /\ worker[j].stage \in {"done", "error"}
  /\ \E mv_ok \in BOOLEAN, rm_ok \in BOOLEAN :
       LET temp_filepath == worker[j].target
           filepath == FilePath(task[j].i, task[j].ext)
           W0 == [worker EXCEPT ![j] = IdleWorker]
       IN IF /\ worker[j].stage = "done"
             /\ is_valid_existing_file(fs, temp_filepath)
             /\ mv_ok
          THEN /\ fs' = Rename(fs, temp_filepath, filepath)
               /\ IF task[j].ext = ".mp3"
                  THEN /\ worker' = [Follow(W0, temp_filepath, filepath) EXCEPT ![j] =
                                       [ op |-> "embed", stage |-> "queued",
                                         target |-> filepath, at |-> NoPath,
                                         payload |-> NoPayload ]]
                       /\ task' = [task EXCEPT ![j].pc = "embed"]
                       /\ UNCHANGED jobs
                  ELSE /\ worker' = Follow(W0, temp_filepath, filepath)
                       /\ task' = [task EXCEPT ![j] = Counted(@, "success")]
                       /\ jobs' = add_downloaded_file(jobs, j, filepath)
          ELSE /\ fs' = IF rm_ok THEN Unlink(fs, temp_filepath) ELSE fs
               /\ worker' = IF rm_ok THEN Detach(W0, temp_filepath) ELSE W0
               /\ task' = [task EXCEPT ![j] = Counted(@, "failed")]
               /\ UNCHANGED jobs
  /\ UNCHANGED <<job_tasks, outdir>>
  /\ Aliased
  /\ UNCHANGED call

\* A fetch that fails the track when the embedding left the file untagged.
EmbedReturned_FailsUntagged(j) ==
  /\ Resumes(j, "embed")
  /\ worker[j].stage = "done"
  /\ worker' = [worker EXCEPT ![j] = IdleWorker]
  /\ IF fs[worker[j].target].tagged
     THEN /\ task' = [task EXCEPT ![j] = Counted(@, "success")]
          /\ jobs' = add_downloaded_file(jobs, j, worker[j].target)
     ELSE /\ task' = [task EXCEPT ![j] = Counted(@, "failed")]
          /\ UNCHANGED jobs
  /\ UNCHANGED <<job_tasks, fs, outdir>>
  /\ Aliased
  /\ UNCHANGED call

\* download_track_async after embed_metadata: the track succeeded, and
\* download_tracks_batch records its file.
EmbedReturned(j) ==
  /\ Resumes(j, "embed")
  /\ worker[j].stage = "done"
  /\ worker' = [worker EXCEPT ![j] = IdleWorker]
  /\ task' = [task EXCEPT ![j] = Counted(@, "success")]
  /\ jobs' = add_downloaded_file(jobs, j, worker[j].target)
  /\ UNCHANGED <<job_tasks, fs, outdir>>
  /\ Aliased
  /\ UNCHANGED call

\* download_tracks_batch without the final report: the job is Completed
\* with the progress of its last track's report.
SleepDone_NoFinalReport(j) ==
  /\ Resumes(j, "sleep")
  /\ IF task[j].i < task[j].n
     THEN \E rm_ok \in BOOLEAN :
            LET r == BeginTrack(jobs, j, [task[j] EXCEPT !.i = @ + 1],
                                fs, worker, rm_ok)
            IN /\ jobs' = r.J
               /\ task' = [task EXCEPT ![j] = r.t]
               /\ fs' = r.F
               /\ worker' = r.W
     ELSE /\ jobs' = update_job_status(jobs, j, COMPLETED, "")
          /\ task' = [task EXCEPT ![j] = Ended(@, "done")]
          /\ UNCHANGED <<fs, worker>>
  /\ UNCHANGED <<job_tasks, outdir>>
  /\ Aliased
  /\ UNCHANGED call

\* download_tracks_batch ending Failed when every track failed.
SleepDone_FailedWhenAllFailed(j) ==
  /\ Resumes(j, "sleep")
  /\ IF task[j].i < task[j].n
     THEN \E rm_ok \in BOOLEAN :
            LET r == BeginTrack(jobs, j, [task[j] EXCEPT !.i = @ + 1],
                                fs, worker, rm_ok)
            IN /\ jobs' = r.J
               /\ task' = [task EXCEPT ![j] = r.t]
               /\ fs' = r.F
               /\ worker' = r.W
     ELSE /\ jobs' = update_job_status(
                       update_job_progress(jobs, j, CompletedLabel,
                                           task[j].completed, task[j].failed,
                                           task[j].skipped),
                       j, IF task[j].failed = task[j].n THEN FAILED ELSE COMPLETED,
                       "")
          /\ task' = [task EXCEPT ![j] = Ended(@, "done")]
          /\ UNCHANGED <<fs, worker>>
  /\ UNCHANGED <<job_tasks, outdir>>
  /\ Aliased
  /\ UNCHANGED call

\* download_tracks_batch after asyncio.sleep(0.5): the next track, or, after
\* the last one, the final report and status Completed.
SleepDone(j) ==
  /\ Resumes(j, "sleep")
  /\ IF task[j].i < task[j].n
     THEN \E rm_ok \in BOOLEAN :
            LET r == BeginTrack(jobs, j, [task[j] EXCEPT !.i = @ + 1],
                                fs, worker, rm_ok)
            IN /\ jobs' = r.J
               /\ task' = [task EXCEPT ![j] = r.t]
               /\ fs' = r.F
               /\ worker' = r.W
     ELSE /\ jobs' = update_job_status(
                       update_job_progress(jobs, j, CompletedLabel,
                                           task[j].completed, task[j].failed,
                                           task[j].skipped),
                       j, COMPLETED, "")
          /\ task' = [task EXCEPT ![j] = Ended(@, "done")]
          /\ UNCHANGED <<fs, worker>>
  /\ UNCHANGED <<job_tasks, outdir>>
  /\ Aliased
  /\ UNCHANGED call

\* ------------------------------------------------------------ cancellation
\* cancel_job without the task.done() test.
cancel_job_AnyTask(job_id) == job_id \in job_tasks

\* JobManager.cancel_job's return value.
cancel_job(job_id) == job_id \in job_tasks /\ ~TaskDone(task[job_id])

\* cancel_job marking the job Failed whatever task.done() says.
CancelJob_AlwaysMarksFailed(job_id) ==
  /\ task' = IF cancel_job(job_id)
             THEN [task EXCEPT ![job_id].cancel_req = TRUE] ELSE task
  /\ jobs' = update_job_status(jobs, job_id, FAILED, CancelMessage)
  /\ UNCHANGED <<job_tasks, worker, fs, outdir>>
  /\ Aliased
  /\ UNCHANGED call

\* cancel_job leaving the status for the task to set.
CancelJob_StatusLeftToTask(job_id) ==
  /\ IF cancel_job(job_id)
     THEN task' = [task EXCEPT ![job_id].cancel_req = TRUE]
     ELSE UNCHANGED task
  /\ UNCHANGED <<jobs, job_tasks, worker, fs, outdir>>
  /\ Aliased
  /\ UNCHANGED call

\* JobManager.cancel_job: task.cancel() asks for the cancellation, which the
\* task meets at its next step.
CancelJob(job_id) ==
  /\ IF cancel_job(job_id)
     THEN /\ task' = [task EXCEPT ![job_id].cancel_req = TRUE]
          /\ jobs' = update_job_status(jobs, job_id, FAILED, CancelMessage)
     ELSE UNCHANGED <<task, jobs>>
  /\ UNCHANGED <<job_tasks, worker, fs, outdir>>
  /\ Aliased
  /\ UNCHANGED call

\* The task's next step after task.cancel(): CancelledError is raised at its
\* await (or before its first line) and nothing catches it, so the task ends.
\* A thread call that has not begun is cancelled with it; one that has begun
\* runs on.
TaskCancelled(j) ==
  /\ task[j].st \in {"pending", "running"}
  /\ task[j].cancel_req
  /\ task' = [task EXCEPT ![j] = Ended(@, "cancelled")]
  /\ worker' = [worker EXCEPT ![j] =
                  IF @.stage \in {"queued", "done", "error"} THEN IdleWorker ELSE @]
  /\ UNCHANGED <<jobs, job_tasks, fs, outdir>>
  /\ Aliased
  /\ UNCHANGED call

\* ----------------------------------------------------------------- cleanup
RECURSIVE SeqToSet(_)
SeqToSet(q) == IF q = <<>> THEN {} ELSE {Head(q)} \cup SeqToSet(Tail(q))

\* cleanup_job_files removing the output directory with all it holds.
cleanup_job_files_RemovesTree(J, F, W, D, job_id, stuck, rmdir_ok) ==
  IF job_id \notin DOMAIN J THEN [F |-> F, W |-> W, D |-> D]
  ELSE [F |-> [p \in Paths |-> NoFile],
        W |-> [k \in JobIds |-> [W[k] EXCEPT !.at = NoPath]],
        D |-> FALSE]

\* JobManager.cleanup_job_files on the file system F.  stuck: the paths whose
\* os.remove raises; rmdir_ok: whether os.rmdir succeeds.
cleanup_job_files(J, F, W, D, job_id, stuck, rmdir_ok) ==
  IF job_id \notin DOMAIN J THEN [F |-> F, W |-> W, D |-> D]
  ELSE LET gone == {p \in SeqToSet(J[job_id].downloaded_files) :
                      Exists(F, p) /\ p \notin stuck}
           F1 == [p \in Paths |-> IF p \in gone THEN NoFile ELSE F[p]]
           W1 == [k \in JobIds |->
                    IF W[k].at \in gone THEN [W[k] EXCEPT !.at = NoPath] ELSE W[k]]
       IN [F |-> F1, W |-> W1,
           D |-> IF D /\ DirEmpty(F1) /\ rmdir_ok THEN FALSE ELSE D]

\* The files a job has recorded.
Recorded(J, ids) ==
  UNION {SeqToSet(J[k].downloaded_files) : k \in ids \cap DOMAIN J}

CleanupJobFiles(job_id) ==
  /\ \E stuck \in SUBSET Recorded(jobs, {job_id}), rmdir_ok \in BOOLEAN :
       LET r == cleanup_job_files(jobs, fs, worker, outdir, job_id, stuck, rmdir_ok)
       IN /\ fs' = r.F
          /\ worker' = r.W
          /\ outdir' = r.D
  /\ UNCHANGED <<jobs, job_tasks, task>>
  /\ Aliased
  /\ UNCHANGED call

\* The jobs cleanup_finished_jobs removes.
Finished(J) == {k \in DOMAIN J : J[k].status \in {COMPLETED, FAILED}}

\* cleanup_job_files for the jobs `ids`, in the order of the job map.
RECURSIVE CleanupAll(_, _, _, _, _, _, _)
CleanupAll(J, F, W, D, ids, stuck, rmdir_ok) ==
  IF ids = {} THEN [F |-> F, W |-> W, D |-> D]
  ELSE CleanupAll(J,
         cleanup_job_files(J, F, W, D, CHOOSE k \in ids : \A m \in ids : k <= m,
                           stuck, rmdir_ok).F,
         cleanup_job_files(J, F, W, D, CHOOSE k \in ids : \A m \in ids : k <= m,
                           stuck, rmdir_ok).W,
         cleanup_job_files(J, F, W, D, CHOOSE k \in ids : \A m \in ids : k <= m,
                           stuck, rmdir_ok).D,
         ids \ {CHOOSE k \in ids : \A m \in ids : k <= m}, stuck, rmdir_ok)

\* cleanup_finished_jobs without "del self.job_tasks[job_id]".
CleanupFinishedJobs_KeepsHandles ==
  /\ \E stuck \in SUBSET Recorded(jobs, Finished(jobs)), rmdir_ok \in BOOLEAN :
       LET r == CleanupAll(jobs, fs, worker, outdir, Finished(jobs), stuck, rmdir_ok)
       IN /\ fs' = r.F
          /\ worker' = r.W
          /\ outdir' = r.D
  /\ jobs' = [k \in DOMAIN jobs \ Finished(jobs) |-> jobs[k]]
  /\ UNCHANGED <<job_tasks, task>>
  /\ Aliased
  /\ UNCHANGED call

\* JobManager.cleanup_finished_jobs
CleanupFinishedJobs ==
  /\ \E stuck \in SUBSET Recorded(jobs, Finished(jobs)), rmdir_ok \in BOOLEAN :
       LET r == CleanupAll(jobs, fs, worker, outdir, Finished(jobs), stuck, rmdir_ok)
       IN /\ fs' = r.F
          /\ worker' = r.W
          /\ outdir' = r.D
  /\ jobs' = [k \in DOMAIN jobs \ Finished(jobs) |-> jobs[k]]
  /\ job_tasks' = job_tasks \ Finished(jobs)
  /\ UNCHANGED <<task>>
  /\ Aliased
  /\ UNCHANGED call

\* ----------------------------------------------------------- specification
Init ==
  /\ jobs = <<>>
  /\ job_tasks = {}
  /\ task = [k \in JobIds |-> NoTask]
  /\ worker = [k \in JobIds |-> IdleWorker]
  /\ fs = [p \in Paths |-> NoFile]
  /\ outdir = FALSE
  /\ all_jobs = NoSnapshot
  /\ call = NoCall

\* No task is live: every task created so far has ended.
NoLiveTask == \A k \in JobIds : task[k].st \in {"unborn", "done", "cancelled", "raised"}

\* The step of job j leaves no temporary file behind: os.remove of the
\* temporary file of a failed track succeeded.
TempRemoved(j) ==
  (task[j].pc = "write" /\ task'[j].pc = "sleep") => ~Exists(fs', worker[j].target)

\* Requests arrive one after the other: a download is started when no batch
\* is running and the finished jobs have been swept.  Threads left behind by
\* a cancelled batch still run beside the next one.  The temporary file of a
\* failed track is always removed here; SpecBatch drops that restriction.
Next ==
  \/ \E n \in 1..MaxTracks, prefer_flac \in BOOLEAN :
       NoLiveTask /\ jobs = <<>> /\ StartDownload(n, prefer_flac)
  \/ \E j \in JobIds :
       \/ TaskStart(j)
       \/ LinkResponse(j)
       \/ ProbeResponse(j)
       \/ FlacLinkResponse(j)
       \/ AudioResponse(j)
       \/ WriterOpen(j)
       \/ WriterChunk(j)
       \/ WriterFinish(j)
       \/ WriterFail(j)
       \/ WriteReturned(j) /\ TempRemoved(j)
       \/ EmbedStart(j)
       \/ EmbedFinish(j)
       \/ EmbedReturned(j)
       \/ SleepDone(j)
       \/ CancelJob(j)
       \/ TaskCancelled(j)
       \/ CleanupJobFiles(j)
  \/ CleanupFinishedJobs

Spec == Init /\ [][Next]_vars

\* --------------------------------------------- update_job_progress alone
\* A registry holding one job of any size up to MaxTotal, and the reports a
\* caller may make on it: update_job_progress with counters that add up to
\* at most total_tracks.
InitProgress ==
  /\ \E total \in 1..MaxTotal : jobs = (1 :> NewJob(total))
  /\ job_tasks = {}
  /\ task = [k \in JobIds |-> NoTask]
  /\ worker = [k \in JobIds |-> IdleWorker]
  /\ fs = [p \in Paths |-> NoFile]
  /\ outdir = FALSE
  /\ all_jobs = NoSnapshot
  /\ call = NoCall

ReportProgress(job_id, completed, failed, skipped) ==
  /\ job_id \in DOMAIN jobs
  /\ completed + failed + skipped <= jobs[job_id].total_tracks
  /\ jobs' = update_job_progress(jobs, job_id, Label(1), completed, failed, skipped)
  /\ UNCHANGED <<job_tasks, task, worker, fs, outdir>>
  /\ Aliased
  /\ UNCHANGED call

NextProgress ==
  \E completed \in 0..MaxTotal, failed \in 0..1, skipped \in 0..1 :
    ReportProgress(1, completed, failed, skipped)

SpecProgress == InitProgress /\ [][NextProgress]_vars

\* ------------------------------------------------------ a batch run again
\* The same batch submitted again after a run that downloaded every track:
\* nothing is cancelled or cleaned up, so the files of the first run stay.
AllDownloaded(r, n) ==
  r.status = COMPLETED /\ r.total_tracks = n /\ r.completed_tracks = n

NextRerun ==
  \/ \E n \in 1..MaxTracks, prefer_flac \in BOOLEAN :
       /\ NoLiveTask
       /\ \A k \in DOMAIN jobs : AllDownloaded(jobs[k], n)
       /\ StartDownload(n, prefer_flac)
  \/ \E j \in JobIds :
       \/ TaskStart(j)
       \/ LinkResponse(j)
       \/ ProbeResponse(j)
       \/ FlacLinkResponse(j)
       \/ AudioResponse(j)
       \/ WriterOpen(j)
       \/ WriterChunk(j)
       \/ WriterFinish(j)
       \/ WriterFail(j)
       \/ WriteReturned(j)
       \/ EmbedStart(j)
       \/ EmbedFinish(j)
       \/ EmbedReturned(j)
       \/ SleepDone(j)

SpecRerun == Init /\ [][NextRerun]_vars

\* ------------------------------------------------- a run without faults
\* The body the file host sends for a link of extension ext when nothing goes
\* wrong: a playable MP3 for ".mp3", a FLAC stream (which is not MP3) for
\* ".flac".
ValidPayload(body, ext) ==
  IF ext = ".flac" THEN body.kind = "raw" /\ body.size > FlacMinSize
  ELSE body.kind = "mp3" /\ body.size >= MinFileSize

\* A step of job j in which nothing fails: no request of download_track_async
\* is refused or raises, the body is valid for the link it came from, no
\* file operation raises.
Faultless(j) ==
  /\ task'[j].st # "raised"
  /\ task[j].pc \in {"link", "audio"} => task'[j].pc # "sleep"
  /\ task[j].pc = "flaclink" => task'[j].ext = ".flac"
  /\ worker'[j].op = "write" =>
       ValidPayload(worker'[j].payload, worker'[j].target.ext)
  /\ worker'[j].stage # "error"
  /\ (task'[j].st = "running" /\ task'[j].failed # task[j].failed) =>
       task[j].pc = "write"
  /\ ( /\ task[j].pc = "write" /\ worker[j].stage = "done"
       /\ is_valid_existing_file(fs, worker[j].target) ) =>
       task'[j].pc # "sleep" \/ task'[j].failed = task[j].failed
  /\ (task[j].pc = "write" /\ task'[j].pc = "sleep") =>
       ~Exists(fs', worker[j].target)

\* Batches submitted to an empty output directory, one after the other, and
\* never cancelled.
NextHappy ==
  \/ \E n \in 1..MaxTracks, prefer_flac \in BOOLEAN :
       NoLiveTask /\ DirEmpty(fs) /\ StartDownload(n, prefer_flac)
  \/ \E j \in JobIds :
       \/ TaskStart(j) /\ Faultless(j)
       \/ LinkResponse(j) /\ Faultless(j)
       \/ ProbeResponse(j) /\ Faultless(j)
       \/ FlacLinkResponse(j) /\ Faultless(j)
       \/ AudioResponse(j) /\ Faultless(j)
       \/ WriterOpen(j) /\ Faultless(j)
       \/ WriterChunk(j) /\ Faultless(j)
       \/ WriterFinish(j) /\ Faultless(j)
       \/ WriteReturned(j) /\ Faultless(j)
       \/ EmbedStart(j) /\ Faultless(j)
       \/ EmbedFinish(j) /\ Faultless(j)
       \/ EmbedReturned(j) /\ Faultless(j)
       \/ SleepDone(j) /\ Faultless(j)
  \/ CleanupFinishedJobs

SpecHappy == Init /\ [][NextHappy]_vars

\* ----------------------------------------- jobs that share a directory
\* Batches of up to SharedTracks tracks submitted at any time, so that two
\* of them run side by side on the same tracks and the same directory, with
\* the cleanup calls in between; no job is cancelled.
NextShared ==
  \/ \E n \in 1..SharedTracks, prefer_flac \in BOOLEAN :
       StartDownload(n, prefer_flac)
  \/ \E j \in JobIds :
       \/ TaskStart(j)
       \/ LinkResponse(j)
       \/ ProbeResponse(j)
       \/ FlacLinkResponse(j)
       \/ AudioResponse(j)
       \/ WriterOpen(j)
       \/ WriterChunk(j)
       \/ WriterFinish(j)
       \/ WriterFail(j)
       \/ WriteReturned(j)
       \/ EmbedStart(j)
       \/ EmbedFinish(j)
       \/ EmbedReturned(j)
       \/ SleepDone(j)
       \/ CleanupJobFiles(j)
  \/ CleanupFinishedJobs

SpecShared == Init /\ [][NextShared]_vars

\* ------------------------------------------------- a caller of get_all_jobs
\* GET /jobs: the caller keeps the dict get_all_jobs returned.
GetAllJobs ==
  /\ all_jobs' = get_all_jobs(jobs)
  /\ UNCHANGED <<jobs, job_tasks, task, worker, fs, outdir, call>>

\* One batch, and one caller that takes the dict once, at any moment, while
\* the batch runs, is cancelled or is swept.
NextSnapshot ==
  \/ all_jobs = NoSnapshot /\ GetAllJobs
  \/ \E n \in 1..MaxTracks, prefer_flac \in BOOLEAN :
       (\A k \in JobIds : task[k].st = "unborn") /\ StartDownload(n, prefer_flac)
  \/ \E j \in JobIds :
       \/ TaskStart(j)
       \/ LinkResponse(j)
       \/ ProbeResponse(j)
       \/ FlacLinkResponse(j)
       \/ AudioResponse(j)
       \/ WriterOpen(j)
       \/ WriterChunk(j)
       \/ WriterFinish(j)
       \/ WriterFail(j)
       \/ WriteReturned(j)
       \/ EmbedStart(j)
       \/ EmbedFinish(j)
       \/ EmbedReturned(j)
       \/ SleepDone(j)
       \/ CancelJob(j)
       \/ TaskCancelled(j)
  \/ CleanupFinishedJobs

SpecSnapshot == Init /\ [][NextSnapshot]_vars

\* --------------------------------------------------------- a single batch
\* embed_metadata raises (the tags do not parse, audio.save() fails): the
\* exception is logged and the call returns; a save that failed part-way
\* leaves the file as far as it was rewritten.
EmbedFail(j) ==
  /\ worker[j].op = "embed"
  /\ worker[j].stage \in {"queued", "saving"}
  /\ worker' = [worker EXCEPT ![j] =
                  Settle(j, [@ EXCEPT !.stage = "done", !.at = NoPath])]
  /\ UNCHANGED <<jobs, job_tasks, task, fs, outdir>>
  /\ Aliased
  /\ UNCHANGED call

\* What the output directory may hold under a track's ".mp3" name before the
\* batch: nothing, a playable MP3, or a file that is not one.
Leftovers ==
  { NoFile,
    [kind |-> "mp3", size |-> 600000, tagged |-> TRUE, whole |-> TRUE],
    [kind |-> "raw", size |-> 600000, tagged |-> FALSE, whole |-> TRUE] }

InitBatch ==
  /\ jobs = <<>>
  /\ job_tasks = {}
  /\ task = [k \in JobIds |-> NoTask]
  /\ worker = [k \in JobIds |-> IdleWorker]
  /\ \E left \in [Tracks -> Leftovers] :
       fs = [p \in Paths |->
               IF p.ext = ".mp3" /\ ~p.tmp THEN left[p.track] ELSE NoFile]
  /\ outdir = TRUE
  /\ all_jobs = NoSnapshot
  /\ call = NoCall

\* One batch, submitted once, with every fault of the fetcher, a cancellation
\* at any moment and the cleanup calls.
NextBatch ==
  \/ \E n \in 1..MaxTracks, prefer_flac \in BOOLEAN :
       (\A k \in JobIds : task[k].st = "unborn") /\ StartDownload(n, prefer_flac)
  \/ \E j \in JobIds :
       \/ TaskStart(j)
       \/ LinkResponse(j)
       \/ ProbeResponse(j)
       \/ FlacLinkResponse(j)
       \/ AudioResponse(j)
       \/ WriterOpen(j)
       \/ WriterChunk(j)
       \/ WriterFinish(j)
       \/ WriterFail(j)
       \/ WriteReturned(j)
       \/ EmbedStart(j)
       \/ EmbedFinish(j)
       \/ EmbedFail(j)
       \/ EmbedReturned(j)
       \/ SleepDone(j)
       \/ CancelJob(j)
       \/ TaskCancelled(j)
       \/ CleanupJobFiles(j)
  \/ CleanupFinishedJobs

SpecBatch == InitBatch /\ [][NextBatch]_vars

\* ----------------------------------------------- the registry called directly
\* The JobStatus values a caller may pass, and the messages: none (None or
\* "", both false for "if error_message:") or a text.
Statuses == {PENDING, RUNNING, COMPLETED, FAILED, SKIPPED}
Messages == {"", "Disk full"}

\* job_manager.update_job_status(job_id, status, error_message)
UpdateJobStatus(job_id, status, error_message) ==
  /\ jobs' = update_job_status(jobs, job_id, status, error_message)
  /\ UNCHANGED <<job_tasks, task, worker, fs, outdir>>
  /\ Aliased
  /\ UNCHANGED call

\* job_manager.update_job_progress(job_id, current_track, completed, failed,
\* skipped), with counters that fit the job when there is one.
UpdateJobProgress(job_id, completed, failed, skipped) ==
  /\ job_id \in DOMAIN jobs =>
       completed + failed + skipped <= jobs[job_id].total_tracks
  /\ jobs' = update_job_progress(jobs, job_id, Label(1), completed, failed, skipped)
  /\ UNCHANGED <<job_tasks, task, worker, fs, outdir>>
  /\ Aliased
  /\ UNCHANGED call

\* job_manager.add_downloaded_file(job_id, file_path)
AddDownloadedFile(job_id, file_path) ==
  /\ job_id \in DOMAIN jobs => Len(jobs[job_id].downloaded_files) < MaxRecorded
  /\ jobs' = add_downloaded_file(jobs, job_id, file_path)
  /\ UNCHANGED <<job_tasks, task, worker, fs, outdir>>
  /\ Aliased
  /\ UNCHANGED call

\* A directory that holds the ".mp3" file of every track.
InitRegistry ==
  /\ jobs = <<>>
  /\ job_tasks = {}
  /\ task = [k \in JobIds |-> NoTask]
  /\ worker = [k \in JobIds |-> IdleWorker]
  /\ fs = [p \in Paths |->
             IF p.ext = ".mp3" /\ ~p.tmp
             THEN [kind |-> "mp3", size |-> 600000, tagged |-> TRUE, whole |-> TRUE]
             ELSE NoFile]
  /\ outdir = TRUE
  /\ all_jobs = NoSnapshot
  /\ call = NoCall

\* One job is created; the registry's methods are then called with any job
\* id, the job's own, one never created, or the job's after a sweep.
NextRegistry ==
  \/ \E n \in 1..MaxTracks :
       (\A k \in JobIds : task[k].st = "unborn") /\ StartDownload(n, FALSE)
  \/ \E job_id \in JobIds :
       \/ \E status \in Statuses, error_message \in Messages :
            UpdateJobStatus(job_id, status, error_message)
       \/ \E completed \in 0..MaxTracks, failed \in 0..1, skipped \in 0..1 :
            UpdateJobProgress(job_id, completed, failed, skipped)
       \/ \E track \in Tracks : AddDownloadedFile(job_id, FilePath(track, ".mp3"))
       \/ CleanupJobFiles(job_id)
  \/ CleanupFinishedJobs

SpecRegistry == InitRegistry /\ [][NextRegistry]_vars

\* One batch as in SpecBatch, started on an empty output directory: every
\* file there is one the job wrote.
SpecLeak == Init /\ [][NextBatch]_vars

\* A step of job j's task or of its executor thread, the wake-up from
\* asyncio.sleep aside.
TaskStep(j) ==
  \/ TaskStart(j)
  \/ LinkResponse(j)
  \/ ProbeResponse(j)
  \/ FlacLinkResponse(j)
  \/ AudioResponse(j)
  \/ WriterOpen(j)
  \/ WriterChunk(j)
  \/ WriterFinish(j)
  \/ WriterFail(j)
  \/ WriteReturned(j)
  \/ EmbedStart(j)
  \/ EmbedFinish(j)
  \/ EmbedFail(j)
  \/ EmbedReturned(j)
  \/ TaskCancelled(j)

\* Weak fairness of SleepDone(j), written with its guard: the action is
\* enabled exactly when Resumes(j, "sleep") holds (both branches can always
\* be taken) and every step of it moves the task.
SleepFair(j) == []<>(~Resumes(j, "sleep")) \/ []<><<SleepDone(j)>>_vars

\* One batch on an empty output directory, with a fair scheduler and I/O that
\* returns: the event loop runs a task that is ready, every request is
\* answered or raises (the requests have timeouts), every thread call ends,
\* the sleep of half a second ends.
SpecLive == Init /\ [][NextBatch]_vars /\ \A j \in JobIds : WF_vars(TaskStep(j)) /\ SleepFair(j)

\* --------------------------------------------------- jobs side by side
\* Batches of up to SharedTracks tracks submitted at any time, as in
\* NextShared, each of which may be cancelled at any moment.
NextIsolation ==
  \/ \E n \in 1..SharedTracks, prefer_flac \in BOOLEAN :
       StartDownload(n, prefer_flac)
  \/ \E j \in JobIds :
       \/ TaskStart(j)
       \/ LinkResponse(j)
       \/ ProbeResponse(j)
       \/ FlacLinkResponse(j)
       \/ AudioResponse(j)
       \/ WriterOpen(j)
       \/ WriterChunk(j)
       \/ WriterFinish(j)
       \/ WriterFail(j)
       \/ WriteReturned(j)
       \/ EmbedStart(j)
       \/ EmbedFinish(j)
       \/ EmbedFail(j)
       \/ EmbedReturned(j)
       \/ SleepDone(j)
       \/ CancelJob(j)
       \/ TaskCancelled(j)
       \/ CleanupJobFiles(j)
  \/ CleanupFinishedJobs

SpecIsolation == Init /\ [][NextIsolation]_vars

\* A step made for job a: a step of its task or thread, a cancellation of it,
\* a cleanup of its files.
JobStep(a) ==
  \/ TaskStep(a)
  \/ SleepDone(a)
  \/ CancelJob(a)
  \/ CleanupJobFiles(a)

\* ------------------------------------------------ the destination directory
\* Names are sequences of characters.  The artists and albums of the tracks a
\* batch may hold: one artist, two artists joined by ", ", names with
\* characters the sanitiser replaces, and a track without an album name.
ArtistNames ==
  { <<"A">>, <<"A", ",", " ", "B">>, <<"A", "/", "C">>, <<"\"", "A", "\"">> }
AlbumNames ==
  { <<>>, <<"L">>, <<"L", ":", "2">>, <<"A">> }
\* url_info["type"]
BatchTypes == {"track", "album", "playlist"}

\* The characters re.sub(r'[<>:"/\\|?*]', ...) replaces.
Illegal == {"<", ">", ":", "\"", "/", "\\", "|", "?", "*"}

\* re.sub(r'[<>:"/\\|?*]', lambda m: "'" if m.group() == '"' else '_', name)
Sanitised(name) ==
  [i \in 1..Len(name) |->
     IF name[i] = "\"" THEN "'" ELSE IF name[i] \in Illegal THEN "_" ELSE name[i]]

\* track.artists.split(', ')[0] if ', ' in track.artists else track.artists
FirstArtist(artists) ==
  LET seps == {i \in 1..(Len(artists) - 1) : artists[i] = "," /\ artists[i + 1] = " "}
  IN IF seps = {} THEN artists
     ELSE SubSeq(artists, 1, (CHOOSE i \in seps : \A k \in seps : i <= k) - 1)

\* os.path.join(directory, folder) for a folder name without a separator; a
\* directory is the sequence of folder names below the output directory.
\* Joining the empty name gives "directory/", the directory itself.
Join(directory, folder) ==
  IF folder = <<>> THEN directory ELSE Append(directory, folder)

\* track_outpath with the album folder above the artist folder.
track_outpath_AlbumAboveArtist(is_playlist, use_artist_subfolders, use_album_subfolders, artists, album) ==
  LET p1 == IF use_album_subfolders THEN Join(<<>>, Sanitised(album)) ELSE <<>>
      p2 == IF use_artist_subfolders
            THEN Join(p1, Sanitised(FirstArtist(artists))) ELSE p1
  IN IF is_playlist THEN p2 ELSE <<>>

\* download_tracks_batch: track_outpath of one track.
track_outpath(is_playlist, use_artist_subfolders, use_album_subfolders, artists, album) ==
  LET p1 == IF use_artist_subfolders
            THEN Join(<<>>, Sanitised(FirstArtist(artists))) ELSE <<>>
      p2 == IF use_album_subfolders THEN Join(p1, Sanitised(album)) ELSE p1
  IN IF is_playlist THEN p2 ELSE <<>>

\* One loop iteration's choice of the directory a track is fetched into, for
\* a request of the given type and policy.
TrackOutpath(type, use_artist_subfolders, use_album_subfolders, artists, album) ==
  /\ call' = [ fn |-> "track_outpath", type |-> type,
               use_artist_subfolders |-> use_artist_subfolders,
               use_album_subfolders |-> use_album_subfolders,
               artists |-> artists, album |-> album,
               result |-> track_outpath(type = "playlist", use_artist_subfolders,
                                        use_album_subfolders, artists, album) ]
  /\ UNCHANGED <<jobs, job_tasks, task, worker, fs, outdir, all_jobs>>

NextLayout ==
  \E type \in BatchTypes, use_artist_subfolders \in BOOLEAN,
     use_album_subfolders \in BOOLEAN, artists \in ArtistNames, album \in AlbumNames :
    TrackOutpath(type, use_artist_subfolders, use_album_subfolders, artists, album)

SpecLayout == Init /\ [][NextLayout]_vars

\* ------------------------------------------------ the validity check alone
\* The sizes either side of the two thresholds.
FileSizes == {MinFileSize - 1, MinFileSize, FlacMinSize, FlacMinSize + 1}

\* A directory that holds at most one file, of any kind and size, under a
\* final name or under a temporary name.
InitValidity ==
  /\ jobs = <<>>
  /\ job_tasks = {}
  /\ task = [k \in JobIds |-> NoTask]
  /\ worker = [k \in JobIds |-> IdleWorker]
  /\ \/ fs = [p \in Paths |-> NoFile]
     \/ \E at \in Paths, kind \in {"mp3", "mp3zero", "raw"}, size \in FileSizes :
          fs = [p \in Paths |->
                  IF p = at
                  THEN [kind |-> kind, size |-> size, tagged |-> FALSE, whole |-> TRUE]
                  ELSE NoFile]
  /\ outdir = TRUE
  /\ all_jobs = NoSnapshot
  /\ call = NoCall

\* self.is_valid_existing_file(filepath) on the directory as it is.
CheckFile(filepath) ==
  /\ call' = [ fn |-> "is_valid_existing_file", filepath |-> filepath,
               result |-> is_valid_existing_file(fs, filepath) ]
  /\ UNCHANGED <<jobs, job_tasks, task, worker, fs, outdir, all_jobs>>

NextValidity == \E filepath \in Paths : CheckFile(filepath)

SpecValidity == InitValidity /\ [][NextValidity]_vars

\* ------------------------------------------------------------- properties
\* The sum of the counters a job record reports.
Reported(r) == r.completed_tracks + r.failed_tracks + r.skipped_tracks

Terminal == {COMPLETED, FAILED}

\* The jobs that are in the registry before and after a step.
Kept == DOMAIN jobs \cap DOMAIN jobs'

\* C1: in every reachable state, every job's completed + failed + skipped
\* is at most its total_tracks.
C1_SumWithinTotal ==
  \A j \in DOMAIN jobs : Reported(jobs[j]) <= jobs[j].total_tracks

\* A batch of two tracks has reported both, one skipped and one failed.
C1_Witness ==
  \E j \in DOMAIN jobs :
    /\ jobs[j].total_tracks = 2
    /\ jobs[j].skipped_tracks = 1
    /\ jobs[j].failed_tracks = 1

C3_ForwardOnly ==
  [][\A j \in Kept :
       \/ jobs'[j].status = jobs[j].status
       \/ jobs[j].status = PENDING /\ jobs'[j].status = RUNNING
       \/ jobs[j].status = RUNNING /\ jobs'[j].status \in Terminal]_vars

\* C3, amended: a step changes a job's status only from Pending to Running,
\* from Running to Completed or Failed, or (a cancellation before the task's
\* first step) from Pending to Failed; never backwards, never out of
\* Completed or Failed.
C3_ForwardOrCancelledPending ==
  [][\A j \in Kept :
       \/ jobs'[j].status = jobs[j].status
       \/ jobs[j].status = PENDING /\ jobs'[j].status \in {RUNNING, FAILED}
       \/ jobs[j].status = RUNNING /\ jobs'[j].status \in Terminal]_vars

\* A job that ran, recorded a file and was then cancelled: it went from
\* Pending to Running to Failed.
C3_Witness ==
  \E j \in DOMAIN jobs :
    /\ jobs[j].status = FAILED
    /\ jobs[j].current_track # <<>>
    /\ jobs[j].downloaded_files # <<>>

\* C4: the step that requests a task's cancellation is taken only when
\* cancel_job returns true, and it leaves the job Failed with the message
\* "Job cancelled by user" and its downloaded_files as they were; a job
\* whose task has stopped on a cancellation is Failed; and the
\* downloaded_files of a Failed job do not change.
C4_CancelMarksFailedFirst ==
  /\ [](\A j \in DOMAIN jobs :
          task[j].st = "cancelled" =>
            jobs[j].status = FAILED /\ jobs[j].error_message = CancelMessage)
  /\ [][\A j \in JobIds :
          /\ (~task[j].cancel_req /\ task'[j].cancel_req) =>
               /\ cancel_job(j)
               /\ j \in Kept
               /\ jobs'[j].status = FAILED
               /\ jobs'[j].error_message = CancelMessage
               /\ jobs'[j].downloaded_files = jobs[j].downloaded_files
          /\ (j \in Kept /\ jobs[j].status = FAILED) =>
               jobs'[j].downloaded_files = jobs[j].downloaded_files]_vars

\* A batch of two tracks was cancelled after its first file was recorded;
\* the task has stopped and the record still lists the file.
C4_Witness ==
  \E j \in DOMAIN jobs :
    /\ task[j].st = "cancelled"
    /\ jobs[j].status = FAILED
    /\ jobs[j].total_tracks = 2
    /\ Len(jobs[j].downloaded_files) = 1

\* C5: the file under a final path (one that does not end in ".tmp") is
\* always a whole payload: no writer is part-way through it.
C5_FinalPathsWhole ==
  \A p \in Paths : (~p.tmp /\ Exists(fs, p)) => fs[p].whole

\* The files a job has recorded are all on disk, whole and valid.
Intact(r) ==
  \A p \in SeqToSet(r.downloaded_files) :
    Exists(fs, p) /\ fs[p].whole /\ is_valid_existing_file(fs, p)

\* C6: when a run downloaded every track and its files are intact, a second
\* run of the same batch with the same options asks for no download link,
\* downloads nothing and ends with skipped = total.
C6_RerunSkipsAll ==
  \A k \in DOMAIN jobs, j \in DOMAIN jobs :
    ( /\ k < j
      /\ AllDownloaded(jobs[k], jobs[j].total_tracks)
      /\ Intact(jobs[k])
      /\ (\E p \in SeqToSet(jobs[k].downloaded_files) : p.ext = ".flac")
            => task[j].prefer_flac )
    => /\ task[j].st = "running" => task[j].pc = "sleep" /\ task[j].completed = 0
       /\ jobs[j].status = COMPLETED =>
            jobs[j].skipped_tracks = jobs[j].total_tracks
            /\ jobs[j].completed_tracks = 0

\* C7: no step lowers a job's progress or the sum of its counters.
C7_ProgressNeverDecreases ==
  [][\A j \in Kept :
       /\ jobs[j].progress <= jobs'[j].progress
       /\ Reported(jobs[j]) <= Reported(jobs'[j])]_vars

\* A batch of two tracks is half-way: it reports progress 50 while Running.
C7_Witness ==
  \E j \in DOMAIN jobs :
    /\ jobs[j].status = RUNNING
    /\ jobs[j].progress = 50
    /\ Reported(jobs[j]) = 1

C9_ProgressIsExactFloor ==
  \A j \in DOMAIN jobs :
    /\ jobs[j].progress = (100 * Reported(jobs[j])) \div jobs[j].total_tracks
    /\ jobs[j].status = RUNNING => jobs[j].total_tracks >= 1

\* C10: a job whose task ran to the end of its track list is Completed, and
\* a step makes a job Failed only when it is a cancel_job that returns true
\* and requests the task's cancellation.
C10_CompletedUnlessCancelled ==
  /\ [](\A j \in DOMAIN jobs : task[j].st = "done" => jobs[j].status = COMPLETED)
  /\ [][\A j \in Kept :
          (jobs[j].status # FAILED /\ jobs'[j].status = FAILED) =>
            cancel_job(j) /\ ~task[j].cancel_req /\ task'[j].cancel_req]_vars

\* A batch of two tracks ran to its end with both tracks failed, and is
\* Completed.
C10_Witness ==
  \E j \in DOMAIN jobs :
    /\ task[j].st = "done"
    /\ jobs[j].status = COMPLETED
    /\ jobs[j].failed_tracks = 2

\* The sum of the counters a task holds.
Counters(t) == t.completed + t.failed + t.skipped

Live == {"pending", "running"}

\* C11: a step in which a live task counts a failure counts exactly one, for
\* the track it is at, leaves the other counters alone and leaves the task
\* running towards its next track; a task ends only after its last track,
\* and then the job is Completed with counters that add up to total_tracks;
\* no running task ends with an exception.
C11_FailureIsolated ==
  [][\A j \in JobIds :
       /\ ( /\ task[j].st \in Live /\ task'[j].st \in Live
            /\ task'[j].failed # task[j].failed ) =>
            /\ task'[j].st = "running"
            /\ task'[j].failed = task[j].failed + 1
            /\ task'[j].completed = task[j].completed
            /\ task'[j].skipped = task[j].skipped
            /\ Counters(task'[j]) = task'[j].i
            /\ task'[j].pc = "sleep"
       /\ (task[j].st = "running" /\ task'[j].st = "done") =>
            /\ task[j].i = task[j].n
            /\ j \in DOMAIN jobs'
            /\ jobs'[j].status = COMPLETED
            /\ Reported(jobs'[j]) = jobs'[j].total_tracks
       /\ task[j].st = "running" => task'[j].st # "raised"]_vars

\* A batch of two tracks whose first track failed went on to download and
\* record the second, and is Completed.
C11_Witness ==
  \E j \in DOMAIN jobs :
    /\ jobs[j].status = COMPLETED
    /\ jobs[j].failed_tracks = 1
    /\ jobs[j].completed_tracks = 1
    /\ Len(jobs[j].downloaded_files) = 1
    /\ Head(jobs[j].downloaded_files).track = 2

\* C12: a step that begins a track whose ".mp3" destination holds a file the
\* validity check accepts counts the track as skipped and leaves the task in
\* the sleep after the track: no request is made, no thread is started and
\* the file system is as it was; and a track is counted as skipped only so.
C12_ValidFileSkipped ==
  [][\A j \in JobIds :
       /\ ( /\ task'[j].st = "running"
            /\ task'[j].i = task[j].i + 1
            /\ is_valid_existing_file(fs, FilePath(task'[j].i, ".mp3")) )
          => /\ task'[j].skipped = task[j].skipped + 1
             /\ task'[j].completed = task[j].completed
             /\ task'[j].failed = task[j].failed
             /\ task'[j].pc = "sleep"
             /\ fs' = fs
             /\ worker' = worker
       /\ ( /\ task[j].st \in Live /\ task'[j].st = "running"
            /\ task'[j].skipped # task[j].skipped )
          => /\ is_valid_existing_file(fs, FilePath(task'[j].i, ".mp3"))
             /\ fs' = fs]_vars

\* A running task has counted a track as skipped, and the file is there.
C12_Witness ==
  \E j \in JobIds :
    /\ task[j].st = "running"
    /\ task[j].pc = "sleep"
    /\ task[j].skipped = 1
    /\ is_valid_existing_file(fs, FilePath(task[j].i, ".mp3"))

\* C13: when the lossless link was negotiated and the body written to the
\* temporary path is whole, larger than 500,000 bytes and not parseable as
\* MP3, the step after the write counts the track as downloaded, leaves the
\* file under the ".flac" path and starts no metadata embedding.
C13_FlacStored ==
  [][\A j \in JobIds :
       ( /\ task[j].st = "running" /\ task'[j].st = "running"
         /\ task[j].pc = "write" /\ task'[j].pc # "write"
         /\ task[j].ext = ".flac"
         /\ worker[j].stage = "done"
         /\ worker[j].payload.kind = "raw"
         /\ worker[j].payload.size > FlacMinSize
         /\ fs[worker[j].target] =
              [ kind |-> "raw", size |-> worker[j].payload.size,
                tagged |-> FALSE, whole |-> TRUE ] )
       => /\ task'[j].completed = task[j].completed + 1
          /\ task'[j].pc = "sleep"
          /\ worker'[j] = IdleWorker
          /\ Exists(fs', FilePath(task[j].i, ".flac"))]_vars

\* C20: a running task is at one track i of 1..n, its counters account for
\* the tracks before i (and for i once its outcome is in), its thread works
\* on track i; the index moves only by one, and only from the sleep that
\* follows a counted outcome (or at the task's first step).
C20_InOrderOneAtATime ==
  /\ [](\A j \in JobIds :
          task[j].st = "running" =>
            /\ task[j].i \in 1..task[j].n
            /\ Counters(task[j]) =
                 IF task[j].pc = "sleep" THEN task[j].i ELSE task[j].i - 1
            /\ worker[j].op # "idle" => worker[j].target.track = task[j].i)
  /\ [][\A j \in JobIds :
          (task'[j].st = "running" /\ task'[j].i # task[j].i) =>
            /\ task'[j].i = task[j].i + 1
            /\ task[j].st = "pending" \/ task[j].pc = "sleep"]_vars

\* A task is fetching its second track, with the first one counted.
C20_Witness ==
  \E j \in JobIds :
    /\ task[j].st = "running"
    /\ task[j].i = 2
    /\ task[j].pc = "write"
    /\ Counters(task[j]) = 1

\* C14: when a batch was started in an empty directory, nothing failed and
\* nothing was cancelled, the job of a task that has ended is Completed with
\* completed = total_tracks, failed = 0, skipped = 0, progress 100 and one
\* entry of downloaded_files per track, in the order of the tracks.
C14_AllDownloaded ==
  \A j \in DOMAIN jobs :
    task[j].st = "done" =>
      /\ jobs[j].status = COMPLETED
      /\ jobs[j].completed_tracks = jobs[j].total_tracks
      /\ jobs[j].failed_tracks = 0
      /\ jobs[j].skipped_tracks = 0
      /\ jobs[j].progress = 100
      /\ Len(jobs[j].downloaded_files) = jobs[j].total_tracks
      /\ \A i \in 1..Len(jobs[j].downloaded_files) :
           jobs[j].downloaded_files[i].track = i

\* What cleanup_job_files(j) may do to the files: it only deletes, and only
\* paths the job has recorded; the directory is removed only when it is
\* then empty.
CleanupFrame(j) ==
  /\ \A p \in Paths :
       /\ fs'[p] \in {fs[p], NoFile}
       /\ p \notin Recorded(jobs, {j}) => fs'[p] = fs[p]
  /\ (outdir /\ ~outdir') => DirEmpty(fs')
  /\ ~outdir => ~outdir'
  /\ jobs' = jobs

\* C15 as stated: cleanup_job_files deletes only recorded paths of that job,
\* and removes the output directory if and only if it is then empty.
C15_CleanupRemovesDirIffEmpty ==
  [][\A j \in JobIds :
       CleanupJobFiles(j) =>
         /\ CleanupFrame(j)
         /\ (outdir /\ DirEmpty(fs')) => ~outdir']_vars

\* C15, amended: cleanup_job_files deletes only recorded paths of that job
\* (each one unless its deletion fails), changes no job record, and removes
\* the output directory only if it is then empty; an empty directory stays
\* when os.rmdir fails.
C15_CleanupRemovesDirOnlyIfEmpty ==
  [][\A j \in JobIds : CleanupJobFiles(j) => CleanupFrame(j)]_vars

\* A Completed job recorded two files; a cleanup removed the first while the
\* deletion of the second failed, and the directory is kept.
C15_Witness ==
  \E j \in DOMAIN jobs :
    /\ jobs[j].status = COMPLETED
    /\ Len(jobs[j].downloaded_files) = 2
    /\ ~Exists(fs, jobs[j].downloaded_files[1])
    /\ Exists(fs, jobs[j].downloaded_files[2])
    /\ outdir

\* C17: for a job id that has no registered task or whose task has ended, a
\* cancel_job changes nothing at all, and no step makes that job Failed or
\* changes its error message; a Completed job stays Completed.
C17_CancelOfFinishedIsNoOp ==
  [][\A j \in JobIds :
       /\ (j \notin job_tasks \/ TaskDone(task[j])) =>
            /\ CancelJob(j) => UNCHANGED vars
            /\ j \in Kept =>
                 /\ jobs'[j].status = FAILED => jobs[j].status = FAILED
                 /\ jobs'[j].error_message = jobs[j].error_message
       /\ (j \in Kept /\ jobs[j].status = COMPLETED) =>
            jobs'[j].status = COMPLETED]_vars

\* A Completed job whose task is registered and has ended: cancel_job on it
\* returns false.
C17_Witness ==
  \E j \in DOMAIN jobs :
    /\ j \in job_tasks
    /\ task[j].st = "done"
    /\ jobs[j].status = COMPLETED
    /\ jobs[j].error_message = ""
    /\ ~cancel_job(j)

\* C16: a cleanup_finished_jobs removes from the registry exactly the jobs
\* that are Completed or Failed, with their task handles; every other job
\* keeps its record, its task and the files it has recorded, and no
\* Completed or Failed job is left.
C16_SweepLeavesLiveJobsAlone ==
  [][CleanupFinishedJobs =>
       /\ DOMAIN jobs' = DOMAIN jobs \ Finished(jobs)
       /\ job_tasks' = job_tasks \ Finished(jobs)
       /\ \A j \in DOMAIN jobs' :
            /\ jobs'[j] = jobs[j]
            /\ jobs'[j].status \notin Terminal
            /\ j \in job_tasks'
            /\ task'[j] = task[j]
            /\ \A p \in SeqToSet(jobs[j].downloaded_files) : fs'[p] = fs[p]]_vars

\* The fetch of job j has a temporary file: its body was handed to a thread
\* and the task waits for the write.
WritingTemp(j) ==
  task[j].st = "running" /\ task[j].pc = "write" /\ worker[j].op = "write"

\* C19: no two fetches that have a temporary file at the same time have the
\* same temporary path.
C19_TempPathsExclusive ==
  \A j \in JobIds, k \in JobIds :
    (j # k /\ WritingTemp(j) /\ WritingTemp(k)) =>
      worker[j].target # worker[k].target

\* C18: what a caller reads through the dict get_all_jobs returned is what
\* it held when it was returned: the same job ids, and for each job the
\* same fields, whatever the registry does afterwards.
C18_SnapshotFrozen ==
  /\ DOMAIN all_jobs.now = all_jobs.ids
  /\ \A k \in all_jobs.ids : all_jobs.now[k] = all_jobs.seen[k]

\* The folder levels the subfolder policy asks for, for one track.
Requested(c) ==
  (IF c.use_artist_subfolders THEN <<Sanitised(FirstArtist(c.artists))>> ELSE <<>>)
  \o (IF c.use_album_subfolders THEN <<Sanitised(c.album)>> ELSE <<>>)

\* C21 as stated: for every type of batch, a track is fetched into the output
\* directory followed by the requested levels, artist folder first, and into
\* the output directory itself without the policy.
C21_SubfoldersForEveryType ==
  call.fn = "track_outpath" => call.result = Requested(call)

\* The levels of a sequence of folder names that are not the empty name.
NonEmptyLevels(q) == SelectSeq(q, LAMBDA name : name # <<>>)

\* C21, amended: for a playlist, a track is fetched into the output
\* directory followed by the requested levels whose folder name is not
\* empty, artist folder first; for a single track or an album, and without
\* the policy, it is fetched into the output directory itself.
C21_SubfoldersForPlaylists ==
  call.fn = "track_outpath" =>
    call.result = IF call.type = "playlist"
                  THEN NonEmptyLevels(Requested(call)) ELSE <<>>

\* A playlist track by two artists was given both levels: the folder of its
\* first artist, and below it the sanitised album folder.
C21_Witness ==
  /\ call.fn = "track_outpath"
  /\ call.type = "playlist"
  /\ call.artists = <<"A", ",", " ", "B">>
  /\ call.result = << <<"A">>, <<"L", "_", "2">> >>

\* The name a path has once the file is promoted: without ".tmp".
FinalName(p) == [p EXCEPT !.tmp = FALSE]

\* C28: is_valid_existing_file answers true exactly when the file exists,
\* has at least 100,000 bytes and either parses as MP3 with a positive
\* length, or does not parse, is named with the ".flac" extension and has
\* more than 500,000 bytes; a file under the temporary name "<final>.tmp" is
\* judged as it is under its final name.
C28_ValidityDecision ==
  call.fn = "is_valid_existing_file" =>
    LET p == call.filepath
    IN call.result <=>
         /\ Exists(fs, p)
         /\ fs[p].size >= MinFileSize
         /\ \/ ParseMP3(fs[p]) = "pos"
            \/ /\ ParseMP3(fs[p]) = "raise"
               /\ FinalName(p).ext = ".flac"
               /\ fs[p].size > FlacMinSize

\* C22: the downloaded_files of a job in the registry are the final paths of
\* distinct tracks in track order; a step leaves the list as it was or
\* appends one path at its end; it appends exactly when the task counts a
\* track as downloaded (never when it counts one as skipped or failed), and
\* the path is the final path of that track; a cancel_job or a
\* cleanup_job_files changes no list.
C22_FilesOnlyGrow ==
  /\ [](\A j \in DOMAIN jobs :
          LET q == jobs[j].downloaded_files
          IN \A a \in 1..Len(q) :
               /\ ~q[a].tmp
               /\ \A b \in 1..Len(q) : a < b => q[a].track < q[b].track)
  /\ [][\A j \in Kept :
          LET q == jobs[j].downloaded_files
              counted == /\ task[j].st = "running" /\ task'[j].st = "running"
                         /\ task'[j].completed = task[j].completed + 1
          IN /\ \/ jobs'[j].downloaded_files = q
                \/ /\ Len(jobs'[j].downloaded_files) = Len(q) + 1
                   /\ SubSeq(jobs'[j].downloaded_files, 1, Len(q)) = q
                   /\ jobs'[j].downloaded_files[Len(q) + 1].track = task[j].i
             /\ (jobs'[j].downloaded_files # q) <=> counted
             /\ (CancelJob(j) \/ CleanupJobFiles(j)) =>
                  jobs'[j].downloaded_files = q]_vars

\* A job recorded the files of two tracks in order; a cleanup has deleted
\* the first from the disk and both are still listed.
C22_Witness ==
  \E j \in DOMAIN jobs :
    /\ Len(jobs[j].downloaded_files) = 2
    /\ jobs[j].downloaded_files[1].track = 1
    /\ jobs[j].downloaded_files[2].track = 2
    /\ ~Exists(fs, jobs[j].downloaded_files[1])

\* C23: while a task is at track i (from the step that begins the track,
\* which is the step of its file check and of its first request), the job
\* record shows the label of track i, and the counts reported with that
\* label are the task's counts of the tracks before i; the step that moves
\* the task to a track reports that track's label with the counts the task
\* held before the step.
C23_LabelBeforeFetch ==
  /\ [](\A j \in DOMAIN jobs :
          task[j].st = "running" =>
            /\ jobs[j].current_track = Label(task[j].i)
            /\ Reported(jobs[j]) = task[j].i - 1
            /\ jobs[j].completed_tracks <= task[j].completed
            /\ jobs[j].failed_tracks <= task[j].failed
            /\ jobs[j].skipped_tracks <= task[j].skipped)
  /\ [][\A j \in JobIds :
          (task'[j].st = "running" /\ task'[j].i # task[j].i) =>
            /\ j \in DOMAIN jobs'
            /\ jobs'[j].current_track = Label(task'[j].i)
            /\ jobs'[j].completed_tracks = task[j].completed
            /\ jobs'[j].failed_tracks = task[j].failed
            /\ jobs'[j].skipped_tracks = task[j].skipped]_vars

\* The task has asked for the download link of its second track; the record
\* shows that track's label and the one outcome before it, a failure.
C23_Witness ==
  \E j \in DOMAIN jobs :
    /\ task[j].st = "running"
    /\ task[j].i = 2
    /\ task[j].pc = "link"
    /\ jobs[j].current_track = Label(2)
    /\ jobs[j].failed_tracks = 1
    /\ jobs[j].progress = 50

\* C24: the step a running task takes on the answer of the availability
\* probe or of the lossless link request, whatever it is, counts no outcome and
\* touches no file: it leads to the next request of the same track, and when
\* the probe does not lead to the lossless link request the fetch goes on
\* with the ".mp3" extension; a fetch that asks for the audio has the
\* ".flac" extension only when the lossless link was preferred.
C24_FallbackNeverFails ==
  /\ [](\A j \in JobIds :
          (task[j].st = "running" /\ task[j].pc \in {"audio", "write", "embed"}) =>
            /\ task[j].ext \in Exts
            /\ task[j].ext = ".flac" => task[j].prefer_flac)
  /\ [][\A j \in JobIds :
          ( /\ task[j].st = "running" /\ task'[j].st = "running"
            /\ task[j].pc \in {"probe", "flaclink"}
            /\ task'[j].pc # task[j].pc ) =>
            /\ task'[j].failed = task[j].failed
            /\ task'[j].completed = task[j].completed
            /\ task'[j].skipped = task[j].skipped
            /\ task'[j].i = task[j].i
            /\ fs' = fs
            /\ jobs' = jobs
            /\ IF task[j].pc = "probe"
               THEN \/ task'[j].pc = "flaclink"
                    \/ task'[j].pc = "audio" /\ task'[j].ext = ".mp3"
               ELSE task'[j].pc = "audio" /\ task'[j].ext \in Exts]_vars

\* A task that preferred the lossless format and got none has stored the
\* primary file under the ".mp3" name and waits for the metadata embedding.
C24_Witness ==
  \E j \in JobIds :
    /\ task[j].st = "running"
    /\ task[j].prefer_flac
    /\ task[j].pc = "embed"
    /\ task[j].ext = ".mp3"
    /\ Exists(fs, FilePath(task[j].i, ".mp3"))

\* C25: a thread embeds metadata only for a running task that waits for it
\* with the ".mp3" extension; the step after the write starts the embedding
\* only when it has renamed the temporary file to the ".mp3" path, and
\* counts the track as downloaded without embedding only for ".flac"; the
\* step after the embedding, whatever the embedding did to the file, counts
\* the track as downloaded and records the ".mp3" path.
C25_EmbedOnlyPrimaryNeverFails ==
  /\ [](\A j \in JobIds :
          (worker[j].op = "embed" /\ task[j].st = "running") =>
            /\ task[j].pc = "embed"
            /\ task[j].ext = ".mp3"
            /\ worker[j].target = FilePath(task[j].i, ".mp3"))
  /\ [][\A j \in JobIds :
          (task[j].st = "running" /\ task'[j].st = "running") =>
            /\ (task[j].pc = "write" /\ task'[j].pc = "embed") =>
                 /\ task[j].ext = ".mp3"
                 /\ Exists(fs', FilePath(task[j].i, ".mp3"))
                 /\ ~Exists(fs', TempPath(FilePath(task[j].i, ".mp3")))
                 /\ fs'[FilePath(task[j].i, ".mp3")] = fs[worker[j].target]
                 /\ worker'[j].stage = "queued"
            /\ ( /\ task[j].pc = "write"
                 /\ task'[j].completed # task[j].completed ) =>
                 task[j].ext = ".flac"
            /\ (task[j].pc = "embed" /\ task'[j].pc # "embed") =>
                 /\ task'[j].pc = "sleep"
                 /\ task'[j].completed = task[j].completed + 1
                 /\ task'[j].failed = task[j].failed
                 /\ task'[j].skipped = task[j].skipped
                 /\ j \in Kept
                 /\ jobs'[j].downloaded_files =
                      Append(jobs[j].downloaded_files, FilePath(task[j].i, ".mp3"))]_vars

\* The embedding of a track failed before it wrote anything: the file is
\* stored untagged, and the track is counted as downloaded and recorded.
C25_Witness ==
  \E j \in DOMAIN jobs :
    /\ task[j].st = "running"
    /\ task[j].pc = "sleep"
    /\ task[j].completed = 1
    /\ jobs[j].downloaded_files = <<FilePath(task[j].i, ".mp3")>>
    /\ Exists(fs, FilePath(task[j].i, ".mp3"))
    /\ ~fs[FilePath(task[j].i, ".mp3")].tagged

\* The step job j's task takes when the thread that wrote the temporary
\* file has returned.
AfterWrite(j) ==
  /\ task[j].st = "running" /\ task'[j].st = "running"
  /\ task[j].pc = "write" /\ task'[j].pc # "write"

\* The write raised, or the temporary file does not pass the validity check.
WriteUnusable(j) ==
  worker[j].stage = "error" \/ ~is_valid_existing_file(fs, worker[j].target)

\* The fetch of job j's current track returns Failed: one failure more, no
\* file recorded, the final path as it was.
FetchFailed(j) ==
  /\ task'[j].pc = "sleep"
  /\ task'[j].failed = task[j].failed + 1
  /\ task'[j].completed = task[j].completed
  /\ jobs' = jobs
  /\ \A p \in Paths : p # worker[j].target => fs'[p] = fs[p]

\* C26 as stated: when the write raised or the temporary file fails the
\* validity check, and whenever the step after the write counts a failure,
\* the fetch returns Failed, the temporary file is gone after the step and
\* the final path is as it was.
C26_FailedFetchLeavesNothing ==
  [][\A j \in JobIds :
       ( /\ AfterWrite(j)
         /\ WriteUnusable(j) \/ task'[j].failed # task[j].failed ) =>
         /\ FetchFailed(j)
         /\ ~Exists(fs', worker[j].target)]_vars

\* C26, amended: in those cases the fetch returns Failed and the final path
\* is as it was; the temporary file is gone after the step, or, when its
\* removal failed, is still what the thread left.
C26_FailedFetchKeepsFinalPath ==
  [][\A j \in JobIds :
       ( /\ AfterWrite(j)
         /\ WriteUnusable(j) \/ task'[j].failed # task[j].failed ) =>
         /\ FetchFailed(j)
         /\ fs'[worker[j].target] \in {NoFile, fs[worker[j].target]}]_vars

\* A track failed after its write broke off part-way and the removal of the
\* temporary file failed too: the part-written temporary file is still
\* there, and nothing is at the final path.
C26_Witness ==
  \E j \in JobIds :
    /\ task[j].st = "running"
    /\ task[j].pc = "sleep"
    /\ task[j].failed = 1
    /\ task[j].i = 1
    /\ Exists(fs, TempPath(FilePath(1, ".mp3")))
    /\ fs[TempPath(FilePath(1, ".mp3"))].size < 600000
    /\ ~Exists(fs, FilePath(1, ".mp3"))

\* C27: the step that begins a track whose ".mp3" destination holds a file
\* the validity check rejects either deletes that file, touches no other
\* path and asks for the download link with no outcome counted, or (the
\* deletion failed) leaves the file system as it was, counts the track as
\* failed and goes to the sleep after the track without any request.
C27_CorruptedFileRemovedFirst ==
  [][\A j \in JobIds :
       LET filepath == FilePath(task'[j].i, ".mp3")
       IN ( /\ task'[j].st = "running"
            /\ task'[j].i = task[j].i + 1
            /\ Exists(fs, filepath)
            /\ ~is_valid_existing_file(fs, filepath) ) =>
            \/ /\ ~Exists(fs', filepath)
               /\ \A p \in Paths : p # filepath => fs'[p] = fs[p]
               /\ task'[j].pc = "link"
               /\ Counters(task'[j]) = Counters(task[j])
            \/ /\ fs' = fs
               /\ worker' = worker
               /\ task'[j].pc = "sleep"
               /\ task'[j].failed = task[j].failed + 1
               /\ task'[j].completed = task[j].completed
               /\ task'[j].skipped = task[j].skipped]_vars

\* The deletion of a corrupted file failed: the first track is counted as
\* failed, no request was made, and the corrupted file is still there.
C27_Witness ==
  \E j \in JobIds :
    /\ task[j].st = "running"
    /\ task[j].i = 1
    /\ task[j].pc = "sleep"
    /\ task[j].failed = 1
    /\ Exists(fs, FilePath(1, ".mp3"))
    /\ ~is_valid_existing_file(fs, FilePath(1, ".mp3"))

\* C29: update_job_status, update_job_progress, add_downloaded_file and
\* cleanup_job_files called with a job id that is not in the registry change
\* nothing at all; update_job_status on a job of the registry sets its
\* status, sets its error message to the message given when that is not
\* empty and leaves the message otherwise, and changes nothing else.
C29_UnknownJobIsNoOp ==
  [][\A job_id \in JobIds :
       /\ ( /\ job_id \notin DOMAIN jobs
            /\ \/ \E status \in Statuses, error_message \in Messages :
                    UpdateJobStatus(job_id, status, error_message)
               \/ \E completed \in 0..MaxTracks, failed \in 0..1, skipped \in 0..1 :
                    UpdateJobProgress(job_id, completed, failed, skipped)
               \/ \E track \in Tracks : AddDownloadedFile(job_id, FilePath(track, ".mp3"))
               \/ CleanupJobFiles(job_id) )
            => UNCHANGED vars
       /\ job_id \in DOMAIN jobs =>
            \A status \in Statuses, error_message \in Messages :
              UpdateJobStatus(job_id, status, error_message) =>
                /\ jobs' = [jobs EXCEPT
                              ![job_id].status = status,
                              ![job_id].error_message =
                                  IF error_message = "" THEN @ ELSE error_message]
                /\ UNCHANGED <<job_tasks, task, worker, fs, outdir>>]_vars

\* A job was given a message with one status and then another status
\* without a message: it is Running and still shows the message; the other
\* job id was never created.
C29_Witness ==
  /\ DOMAIN jobs = {1}
  /\ jobs[1].status = RUNNING
  /\ jobs[1].error_message = "Disk full"
  /\ task[2].st = "unborn"

\* C30: every job in the registry lists as many files as its
\* completed_tracks, or one more; a Completed job lists exactly as many.
C30_FilesMatchCompleted ==
  \A j \in DOMAIN jobs :
    /\ Len(jobs[j].downloaded_files) - jobs[j].completed_tracks \in {0, 1}
    /\ jobs[j].status = COMPLETED =>
         Len(jobs[j].downloaded_files) = jobs[j].completed_tracks

\* A Running job of two tracks has recorded the file of its first track and
\* not yet reported it: one file listed, completed_tracks still 0.
C30_Witness ==
  \E j \in DOMAIN jobs :
    /\ jobs[j].status = RUNNING
    /\ jobs[j].total_tracks = 2
    /\ Len(jobs[j].downloaded_files) = 1
    /\ jobs[j].completed_tracks = 0

\* C31: when the task of a job has stopped on a cancellation and its threads
\* have returned, a cleanup_job_files of the job or a cleanup_finished_jobs
\* that deletes every path the job recorded leaves no file in the output
\* directory, neither under a final name nor under a temporary one.
C31_CancelledJobLeavesNoFile ==
  [][\A j \in DOMAIN jobs :
       ( /\ task[j].st = "cancelled"
         /\ worker[j].op = "idle"
         /\ CleanupJobFiles(j) \/ CleanupFinishedJobs
         /\ \A p \in Recorded(jobs, {j}) : ~Exists(fs', p) )
       => DirEmpty(fs')]_vars

\* C32: every job whose task was created eventually is Completed or Failed
\* (or has been swept, which takes only such jobs), whatever happens to the
\* task.
C32_StartedJobEnds ==
  \A j \in JobIds :
    (task[j].st = "pending") ~> (j \notin DOMAIN jobs \/ jobs[j].status \in Terminal)

\* C33: a step made for job A (a progress report, a recorded file, a status
\* change, a cancellation, a cleanup of its files) leaves every other job B in
\* the registry with its record as it was, the list of downloaded files
\* included, however the jobs' steps interleave.
C33_JobsIsolated ==
  [][\A a \in JobIds :
       JobStep(a) =>
         \A b \in DOMAIN jobs \ {a} : b \in DOMAIN jobs' /\ jobs'[b] = jobs[b]]_vars

\* Job 1 has recorded a file and is still running beside job 2, which was
\* cancelled before it recorded any.
C33_SideBySide ==
  /\ DOMAIN jobs = {1, 2}
  /\ jobs[1].status = RUNNING
  /\ Len(jobs[1].downloaded_files) = 1
  /\ jobs[2].status = FAILED
  /\ jobs[2].error_message = CancelMessage
  /\ jobs[2].downloaded_files = <<>>

\* C34: whatever batches were started, cancelled and swept, every job id with
\* a task handle is in the registry, and every job in the registry whose task
\* was created has a task handle.
C34_HandlesMatchRegistry ==
  /\ job_tasks \subseteq DOMAIN jobs
  /\ \A j \in DOMAIN jobs : task[j].st # "unborn" => j \in job_tasks

\* Job 1 has ended and was swept with its handle, while job 2, cancelled and
\* stopped, is still registered with its handle.
C34_SweptBesideCancelled ==
  /\ TaskDone(task[1])
  /\ 1 \notin DOMAIN jobs
  /\ 1 \notin job_tasks
  /\ 2 \in DOMAIN jobs
  /\ 2 \in job_tasks
  /\ task[2].st = "cancelled"
  /\ jobs[2].status = FAILED
====
